---- MODULE Spec2Model ----
(***************************************************************************)
(* Model of the trace analysis scripts of gemini-cli 0.2.2:                *)
(*   src/create_gantt_chart.py   GanttChartGenerator (registries, timeline)*)
(*   src/analyze_monitoring.py   analyze_trace_file  (reading loop)        *)
(*                                                                         *)
(* A trace file is a sequence of lines.  A line is blank, malformed (JSON  *)
(* decoding fails) or a decoded JSON object.  A JSON object is a function  *)
(* from the keys it carries to their values, so that "key in data",        *)
(* data[key] (KeyError when absent) and data.get(key, default) are all     *)
(* modelled by what they do.                                               *)
(*                                                                         *)
(* Python's None is modelled as the empty tuple and a set value x of an    *)
(* optional field as the one-element tuple <<x>>.  A dict is modelled as   *)
(* the sequence of its values in insertion order (every value carries its  *)
(* key in the field id), which is the order Python iterates it in.         *)
(***************************************************************************)
EXTENDS Integers, Sequences, FiniteSets, TLC

VARIABLES
    trace,               \* the lines of the trace file (the input; never written)
    line_num,            \* number of lines load_trace_data has consumed
    pc,                  \* position of main(): load, summary, chart, done, exit1
    events,              \* GanttChartGenerator.events
    llm_calls,           \* GanttChartGenerator.llm_calls
    tool_calls,          \* GanttChartGenerator.tool_calls
    embedding_calls,     \* GanttChartGenerator.embedding_calls
    user_confirmations,  \* GanttChartGenerator.user_confirmations
    summary,             \* the figures print_summary printed (None before)
    anomaly,             \* the inconsistency _analyze_missing_events printed (None if none)
    gantt_data,          \* the segment list built by create_gantt_chart
    fig_bars,            \* the bars create_gantt_chart added to the figure
    mon_pc,              \* analyze_monitoring.py: position of analyze_trace_file
    mon_line,            \* analyze_monitoring.py: lines its loop has consumed
    mon_llm_calls,       \* analyze_monitoring.py: the local list llm_calls
    mon_tool_calls,      \* analyze_monitoring.py: the local list tool_calls
    mon_report,          \* analyze_monitoring.py: the figures printed (None before)
    mon_approval,        \* analyze_monitoring.py: the confirmation section printed
    fus_pc,              \* fusion_mode_analysis.py: position of analyze_trace_file
    fus_line,            \* fusion_mode_analysis.py: lines its loop has consumed
    fus_events,          \* fusion_mode_analysis.py: the local list events
    fus_total_size,      \* fusion_mode_analysis.py: the local total_size
    fus_analysis,        \* fusion_mode_analysis.py: the dict returned (None before)
    fus_fusion           \* fusion_mode_analysis.py: the dict simulate_fusion_conversion
                         \* returns (None before)

\* The variables of create_gantt_chart.py's run.
ganttVars == <<line_num, pc, events, llm_calls, tool_calls, embedding_calls,
               user_confirmations, summary, anomaly, gantt_data, fig_bars>>

\* The variables of analyze_monitoring.py's run.
monVars == <<mon_pc, mon_line, mon_llm_calls, mon_tool_calls, mon_report,
             mon_approval>>

\* The variables of fusion_mode_analysis.py's run.
fusVars == <<fus_pc, fus_line, fus_events, fus_total_size, fus_analysis, fus_fusion>>

vars == <<trace, ganttVars, monVars, fusVars>>

\* ------------------------------------------------------------------ bounds

\* Longest trace file explored, in lines.
MaxLines == 3

\* ------------------------------------------------------- Python primitives

None == <<>>

Some(x) == <<x>>

\* "key in obj"
HasKey(obj, key) == key \in DOMAIN obj

\* obj.get(key, default)
Get(obj, key, default) == IF key \in DOMAIN obj THEN obj[key] ELSE default

\* obj.get(key): None when the key is absent
GetOpt(obj, key) == IF key \in DOMAIN obj THEN Some(obj[key]) ELSE None

\* Truth value of an optional number: None and 0 are false.
Truthy(opt) == opt # None /\ opt[1] # 0

\* "opt or 0"
OrZero(opt) == IF Truthy(opt) THEN opt[1] ELSE 0

\* "key in dict" for a dict held as the sequence of its values
InDict(dict, key) == \E i \in DOMAIN dict : dict[i].id = key

\* position of dict[key] in the insertion order
IndexOf(dict, key) == CHOOSE i \in DOMAIN dict : dict[i].id = key

\* dict[key] = value: a new key goes last, an old key keeps its place
DictSet(dict, key, value) ==
    IF InDict(dict, key)
    THEN [dict EXCEPT ![IndexOf(dict, key)] = value]
    ELSE Append(dict, value)

\* Result of a handler: the registry it leaves behind and whether it raised.
Ok(calls) == [calls |-> calls, raised |-> FALSE]

Raise(calls) == [calls |-> calls, raised |-> TRUE]

\* A text is the sequence of its tokens ('' is the empty sequence).  A JSON
\* value that may be saved as a text is a string, [kind |-> "str", toks |-> text],
\* or a dict, [kind |-> "dict", items |-> sequence of <<key, value text>>].
RECURSIVE DumpItems(_)
DumpItems(items) ==
    IF items = <<>> THEN <<>>
    ELSE <<Head(items)[1], ":">> \o Head(items)[2]
         \o (IF Len(items) > 1 THEN <<",">> ELSE <<>>) \o DumpItems(Tail(items))

\* json.dumps of a dict: its keys and values between braces
JsonDumps(v) == <<"{">> \o DumpItems(v.items) \o <<"}">>

\* str() of a string
Str(v) == v.toks

\* "json.dumps(x) if isinstance(x, (dict, list)) else str(x)"
SaveText(v) == IF v.kind = "dict" THEN JsonDumps(v) ELSE Str(v)

\* ------------------------------------------------------ _process_llm_event

\* The record a first-seen llm event creates (needs data['model'], data['status']).
NewLlmCall(data) ==
    [id            |-> data.id,
     model         |-> data.model,
     promptId      |-> Get(data, "promptId", ""),
     status        |-> data.status,
     start_time    |-> None,
     end_time      |-> None,
     duration      |-> None,
     tokens        |-> Get(data, "totalTokens", 0),
     error         |-> Get(data, "error", ""),
     request_text  |-> <<>>,
     response_text |-> <<>>,
     events        |-> <<>>]

\* Mutant: a field the payload lacks keeps its stored value.
LlmTerminalKeepsAbsent(call, data) ==
    [call EXCEPT
        !.start_time    = Some(data.startTime),
        !.end_time      = IF HasKey(data, "endTime") THEN Some(data.endTime) ELSE @,
        !.duration      = IF HasKey(data, "duration") THEN Some(data.duration) ELSE @,
        !.tokens        = IF HasKey(data, "totalTokens") THEN data.totalTokens ELSE @,
        !.request_text  = IF HasKey(data, "requestText")
                          THEN SaveText(data.requestText) ELSE @,
        !.response_text = IF HasKey(data, "responseText")
                          THEN SaveText(data.responseText) ELSE @,
        !.error         = IF Get(data, "error", "") # "" THEN data.error ELSE @]

\* The body of "if event['event'] in ['completed', 'error']" (needs data['startTime']).
LlmTerminal(call, data) ==
    [call EXCEPT
        !.start_time    = Some(data.startTime),
        !.end_time      = Some(Get(data, "endTime", data.startTime)),
        !.duration      = Some(Get(data, "duration", 0)),
        !.tokens        = Get(data, "totalTokens", 0),
        !.request_text  = IF HasKey(data, "requestText")
                          THEN SaveText(data.requestText) ELSE @,
        !.response_text = IF HasKey(data, "responseText")
                          THEN SaveText(data.responseText) ELSE @,
        !.error         = IF Get(data, "error", "") # "" THEN data.error ELSE @]

\* Mutant: the handler merges the payload on the split protocol's phases too.
LlmPhasesWithSplit == {"start", "end", "completed", "error"}

\* A variant that skips an event equal to the last one of the trail.
RecordEventIfNew(call, event) ==
    IF call.events # <<>> /\ call.events[Len(call.events)] = event
    THEN call
    ELSE [call EXCEPT !.events = Append(@, event)]

\* "...['events'].append(event)": the handlers append every event they take to
\* the trail of its record.
RecordEvent(call, event) == [call EXCEPT !.events = Append(@, event)]

\* A variant that stores the envelope's phase name.
PhaseAsStatus(event) == event.event

\* "...['status'] = data['status']": the status the handlers store on every
\* event is the one its payload carries.
StatusOf(event) == event.data.status

\* The phases on which _process_llm_event merges the payload.
LlmTerminalPhases == {"completed", "error"}

ProcessLlmEvent(calls, event) ==
    IF ~HasKey(event, "data") THEN Raise(calls)
    ELSE LET data == event.data IN
    IF ~HasKey(data, "id") THEN Raise(calls)
    ELSE LET isNew == ~InDict(calls, data.id) IN
    IF isNew /\ ~(HasKey(data, "model") /\ HasKey(data, "status")) THEN Raise(calls)
    ELSE LET c1 == IF isNew THEN Append(calls, NewLlmCall(data)) ELSE calls
             i  == IndexOf(c1, data.id)
             c2 == [c1 EXCEPT ![i] = RecordEvent(@, event)]
         IN
    IF ~HasKey(data, "status") THEN Raise(c2)
    ELSE LET c3 == [c2 EXCEPT ![i].status = StatusOf(event)] IN
    IF ~HasKey(event, "event") THEN Raise(c3)
    ELSE IF event.event \notin LlmTerminalPhases THEN Ok(c3)
    ELSE IF ~HasKey(data, "startTime") THEN Raise(c3)
    ELSE Ok([c3 EXCEPT ![i] = LlmTerminal(@, data)])

\* ----------------------------------------------------- _process_tool_event

\* The record a first-seen tool event creates (needs data['toolName'], data['status']).
\* The key 'confirmations' is absent until the first confirmation is linked; an
\* absent key is the empty sequence here (the code never stores an empty list).
NewToolCall(data) ==
    [id                   |-> data.id,
     toolName             |-> data.toolName,
     callId               |-> Get(data, "callId", ""),
     promptId             |-> Get(data, "promptId", ""),
     status               |-> data.status,
     start_time           |-> None,
     end_time             |-> None,
     execution_start_time |-> None,
     execution_end_time   |-> None,
     duration             |-> None,
     execution_duration   |-> None,
     args                 |-> Get(data, "args", <<>>),
     error                |-> Get(data, "error", ""),
     events               |-> <<>>,
     confirmations        |-> <<>>]

\* A variant that never stores an end instant before the start instant.
ToolTerminalOrdered(call, data) ==
    [call EXCEPT
        !.start_time           = Some(data.startTime),
        !.end_time             = Some(IF Get(data, "endTime", data.startTime) < data.startTime
                                      THEN data.startTime ELSE data.endTime),
        !.duration             = Some(Get(data, "duration", 0)),
        !.args                 = Get(data, "args", <<>>),
        !.execution_start_time = GetOpt(data, "executionStartTime"),
        !.execution_end_time   = GetOpt(data, "executionEndTime"),
        !.execution_duration   = Some(Get(data, "executionDuration",
                                          Get(data, "pureExecutionDuration", 0))),
        !.error                = IF Get(data, "error", "") # "" THEN data.error ELSE @]

\* The body of "if event['event'] in ['completed', 'cancelled', 'error']".
ToolTerminal(call, data) ==
    [call EXCEPT
        !.start_time           = Some(data.startTime),
        !.end_time             = Some(Get(data, "endTime", data.startTime)),
        !.duration             = Some(Get(data, "duration", 0)),
        !.args                 = Get(data, "args", <<>>),
        !.execution_start_time = GetOpt(data, "executionStartTime"),
        !.execution_end_time   = GetOpt(data, "executionEndTime"),
        !.execution_duration   = Some(Get(data, "executionDuration",
                                          Get(data, "pureExecutionDuration", 0))),
        !.error                = IF Get(data, "error", "") # "" THEN data.error ELSE @]

\* A variant that also merges the payload of a 'start' event.
ToolPhasesWithStart == {"start", "completed", "cancelled", "error"}

\* The phases on which _process_tool_event merges the payload.
ToolTerminalPhases == {"completed", "cancelled", "error"}

ProcessToolEvent(calls, event) ==
    IF ~HasKey(event, "data") THEN Raise(calls)
    ELSE LET data == event.data IN
    IF ~HasKey(data, "id") THEN Raise(calls)
    ELSE LET isNew == ~InDict(calls, data.id) IN
    IF isNew /\ ~(HasKey(data, "toolName") /\ HasKey(data, "status")) THEN Raise(calls)
    ELSE LET c1 == IF isNew THEN Append(calls, NewToolCall(data)) ELSE calls
             i  == IndexOf(c1, data.id)
             c2 == [c1 EXCEPT ![i] = RecordEvent(@, event)]
         IN
    IF ~HasKey(data, "status") THEN Raise(c2)
    ELSE LET c3 == [c2 EXCEPT ![i].status = StatusOf(event)] IN
    IF ~HasKey(event, "event") THEN Raise(c3)
    ELSE IF event.event \notin ToolTerminalPhases THEN Ok(c3)
    ELSE IF ~HasKey(data, "startTime") THEN Raise(c3)
    ELSE Ok([c3 EXCEPT ![i] = ToolTerminal(@, data)])

\* ------------------------------------------------ _process_embedding_event

\* The record a first-seen embedding event creates.
NewEmbeddingCall(data) ==
    [id               |-> data.id,
     model            |-> data.model,
     promptId         |-> Get(data, "promptId", ""),
     status           |-> data.status,
     start_time       |-> None,
     end_time         |-> None,
     duration         |-> None,
     textCount        |-> Get(data, "textCount", 0),
     vectorDimensions |-> GetOpt(data, "vectorDimensions"),
     requestTexts     |-> Get(data, "requestTexts", <<>>),
     error            |-> None,
     events           |-> <<>>]

\* The body of "if event['event'] in ['completed', 'error']".
EmbeddingTerminal(call, data) ==
    [call EXCEPT
        !.start_time       = Some(data.startTime),
        !.end_time         = Some(Get(data, "endTime", data.startTime)),
        !.duration         = Some(Get(data, "duration", 0)),
        !.textCount        = Get(data, "textCount", 0),
        !.requestTexts     = Get(data, "requestTexts", <<>>),
        !.vectorDimensions = GetOpt(data, "vectorDimensions"),
        !.error            = IF Get(data, "error", "") # "" THEN Some(data.error) ELSE @]

\* The phases on which _process_embedding_event merges the payload.
EmbeddingTerminalPhases == {"completed", "error"}

ProcessEmbeddingEvent(calls, event) ==
    IF ~HasKey(event, "data") THEN Raise(calls)
    ELSE LET data == event.data IN
    IF ~HasKey(data, "id") THEN Raise(calls)
    ELSE LET isNew == ~InDict(calls, data.id) IN
    IF isNew /\ ~(HasKey(data, "model") /\ HasKey(data, "status")) THEN Raise(calls)
    ELSE LET c1 == IF isNew THEN Append(calls, NewEmbeddingCall(data)) ELSE calls
             i  == IndexOf(c1, data.id)
             c2 == [c1 EXCEPT ![i] = RecordEvent(@, event)]
         IN
    IF ~HasKey(data, "status") THEN Raise(c2)
    ELSE LET c3 == [c2 EXCEPT ![i].status = StatusOf(event)] IN
    IF ~HasKey(event, "event") THEN Raise(c3)
    ELSE IF event.event \notin EmbeddingTerminalPhases THEN Ok(c3)
    ELSE IF ~HasKey(data, "startTime") THEN Raise(c3)
    ELSE Ok([c3 EXCEPT ![i] = EmbeddingTerminal(@, data)])

\* ---------------------------------------- _process_user_confirmation_event

\* The keys of data the handler reads with data[...] (KeyError when absent).
ConfirmationRequired == {"id", "toolCallId", "toolName", "confirmationType", "timestamp"}

\* The record stored in user_confirmations (needs event['event'] too).
NewConfirmation(event) ==
    [id               |-> event.data.id,
     toolCallId       |-> event.data.toolCallId,
     toolName         |-> event.data.toolName,
     confirmationType |-> event.data.confirmationType,
     timestamp        |-> event.data.timestamp,
     event            |-> event.event,
     callId           |-> Get(event.data, "callId", ""),
     promptId         |-> Get(event.data, "promptId", "")]

\* A variant that adds the confirmation to every tool record.
LinkConfirmationToAll(tools, conf) ==
    [i \in DOMAIN tools |-> [tools[i] EXCEPT !.confirmations = Append(@, conf)]]

\* Links the confirmation to its tool call when that record exists already.
LinkConfirmation(tools, conf) ==
    IF InDict(tools, conf.toolCallId)
    THEN [tools EXCEPT ![IndexOf(tools, conf.toolCallId)].confirmations = Append(@, conf)]
    ELSE tools

\* Works on the pair (user_confirmations, tool_calls); nothing is written
\* before the last key is read, so a raise leaves both as they were.
ProcessUserConfirmationEvent(confs, tools, event) ==
    IF ~HasKey(event, "data") THEN [confs |-> confs, tools |-> tools, raised |-> TRUE]
    ELSE IF ~(ConfirmationRequired \subseteq DOMAIN event.data) \/ ~HasKey(event, "event")
    THEN [confs |-> confs, tools |-> tools, raised |-> TRUE]
    ELSE LET conf == NewConfirmation(event) IN
         [confs  |-> DictSet(confs, conf.id, conf),
          tools  |-> LinkConfirmation(tools, conf),
          raised |-> FALSE]

\* -------------------------------------------------------- load_trace_data

\* The generator's registries as one value, so that a whole load can be replayed.
Generator(ev, llm, tool, emb, conf) ==
    [events |-> ev, llm_calls |-> llm, tool_calls |-> tool,
     embedding_calls |-> emb, user_confirmations |-> conf]

\* GanttChartGenerator.__init__
NewGenerator == Generator(<<>>, <<>>, <<>>, <<>>, <<>>)

\* "line.strip()" is empty
IsBlank(line) == line.kind = "blank"

\* json.loads(line) succeeds
Decodes(line) == line.kind = "json"

\* The dispatch on event['type'] (KeyError when the envelope has no type);
\* g already holds the event in g.events.
Dispatch(g, event) ==
    IF ~HasKey(event, "type") THEN [g |-> g, raised |-> TRUE]
    ELSE IF event.type = "llm_call" THEN
        LET r == ProcessLlmEvent(g.llm_calls, event) IN
        [g |-> [g EXCEPT !.llm_calls = r.calls], raised |-> r.raised]
    ELSE IF event.type = "tool_call" THEN
        LET r == ProcessToolEvent(g.tool_calls, event) IN
        [g |-> [g EXCEPT !.tool_calls = r.calls], raised |-> r.raised]
    ELSE IF event.type = "embedding_call" THEN
        LET r == ProcessEmbeddingEvent(g.embedding_calls, event) IN
        [g |-> [g EXCEPT !.embedding_calls = r.calls], raised |-> r.raised]
    ELSE IF event.type = "user_confirmation" THEN
        LET r == ProcessUserConfirmationEvent(g.user_confirmations, g.tool_calls, event) IN
        [g |-> [g EXCEPT !.user_confirmations = r.confs, !.tool_calls = r.tools],
         raised |-> r.raised]
    ELSE [g |-> g, raised |-> FALSE]

\* One turn of the loop over the file's lines.  raised: an exception other than
\* JSONDecodeError left the loop (the outer "except Exception" returns False).
LoadStep(g, line) ==
    IF IsBlank(line) THEN [g |-> g, raised |-> FALSE]
    ELSE IF ~Decodes(line) THEN [g |-> g, raised |-> FALSE]
    ELSE Dispatch([g EXCEPT !.events = Append(@, line.obj)], line.obj)

RECURSIVE LoadAll(_, _)
\* The whole loop over the lines of a file: it ends at the first exception.
LoadAll(g, lines) ==
    IF lines = <<>> THEN [g |-> g, raised |-> FALSE]
    ELSE LET r == LoadStep(g, Head(lines)) IN
         IF r.raised THEN r ELSE LoadAll(r.g, Tail(lines))

\* The generator as the variables hold it.
Current == Generator(events, llm_calls, tool_calls, embedding_calls, user_confirmations)

\* ---------------------------------------------------------- print_summary

RECURSIVE SumDuration(_)
\* sum(call.get('duration', 0) or 0 for call in calls)
SumDuration(calls) ==
    IF calls = <<>> THEN 0 ELSE OrZero(Head(calls).duration) + SumDuration(Tail(calls))

RECURSIVE SumTokens(_)
\* sum(call.get('tokens', 0) or 0 for call in llm_calls)
SumTokens(calls) ==
    IF calls = <<>> THEN 0 ELSE Head(calls).tokens + SumTokens(Tail(calls))

RECURSIVE SumTextCount(_)
\* sum(call.get('textCount', 0) for call in embedding_calls)
SumTextCount(calls) ==
    IF calls = <<>> THEN 0 ELSE Head(calls).textCount + SumTextCount(Tail(calls))

\* The figures print_summary prints; a figure it does not print is None.
Summary(g) ==
    [llm_count                |-> Len(g.llm_calls),
     tool_count               |-> Len(g.tool_calls),
     embedding_count          |-> Len(g.embedding_calls),
     total_events             |-> Len(g.events),
     total_llm_duration       |-> IF Len(g.llm_calls) > 0
                                  THEN Some(SumDuration(g.llm_calls)) ELSE None,
     total_tokens             |-> IF Len(g.llm_calls) > 0
                                  THEN Some(SumTokens(g.llm_calls)) ELSE None,
     total_tool_duration      |-> IF Len(g.tool_calls) > 0
                                  THEN Some(SumDuration(g.tool_calls)) ELSE None,
     total_embedding_duration |-> IF Len(g.embedding_calls) > 0
                                  THEN Some(SumDuration(g.embedding_calls)) ELSE None,
     total_texts              |-> IF Len(g.embedding_calls) > 0
                                  THEN Some(SumTextCount(g.embedding_calls)) ELSE None]

\* ------------------------------------------------ _analyze_missing_events

\* "'functionCall' in response_text"
MentionsFunctionCall(text) == \E i \in DOMAIN text : text[i] = "functionCall"

\* Number of llm records whose response text mentions a function call.
LlmWithFunctionCalls(llm) ==
    Cardinality({i \in DOMAIN llm : MentionsFunctionCall(llm[i].response_text)})

\* A variant that also reports when the two counts are equal.
AnalyzeMissingEventsInclusive(g) ==
    LET withCalls == LlmWithFunctionCalls(g.llm_calls)
        toolCount == Len(g.tool_calls)
    IN IF withCalls >= toolCount
       THEN Some([llm_with_function_calls |-> withCalls,
                  tool_calls_count        |-> toolCount,
                  missing_count           |-> withCalls - toolCount])
       ELSE None

\* What _analyze_missing_events prints: nothing (None), or the two counts and
\* their difference.
AnalyzeMissingEvents(g) ==
    LET withCalls == LlmWithFunctionCalls(g.llm_calls)
        toolCount == Len(g.tool_calls)
    IN IF withCalls > toolCount
       THEN Some([llm_with_function_calls |-> withCalls,
                  tool_calls_count        |-> toolCount,
                  missing_count           |-> withCalls - toolCount])
       ELSE None

\* ------------------------------------------------------ create_gantt_chart

\* datetime.fromtimestamp(timestamp / 1000.0), as microseconds since the epoch
\* (a datetime resolves microseconds; the local zone's offset is taken as fixed).
TimestampToDatetime(timestamp) == timestamp * 1000

\* _get_status_color
GetStatusColor(status, is_tool, is_embedding) ==
    IF is_embedding THEN
        CASE status = "started"   -> "#E0FFE0"
          [] status = "completed" -> "#00CED1"
          [] status = "error"     -> "#FF6347"
          [] OTHER                -> "#CCCCCC"
    ELSE IF is_tool THEN
        CASE status = "started"           -> "#FFE4B5"
          [] status = "validating"        -> "#FFA500"
          [] status = "awaiting_approval" -> "#FF8C00"
          [] status = "scheduled"         -> "#FF6347"
          [] status = "executing"         -> "#FF4500"
          [] status = "completed"         -> "#32CD32"
          [] status = "error"             -> "#FF0000"
          [] status = "cancelled"         -> "#FF0000"
          [] OTHER                        -> "#CCCCCC"
    ELSE
        CASE status = "started"   -> "#ADD8E6"
          [] status = "completed" -> "#1E90FF"
          [] status = "error"     -> "#FF0000"
          [] OTHER                -> "#CCCCCC"

\* "if not call['start_time'] or not call['end_time']: continue" lets these through.
Eligible(call) == Truthy(call.start_time) /\ Truthy(call.end_time)

\* A variant that never lets a segment finish before it starts.
SegmentClamped(call, type, name, y_position) ==
    [Task     |-> <<type, name>>,
     Start    |-> TimestampToDatetime(call.start_time[1]),
     Finish   |-> TimestampToDatetime(IF call.end_time[1] < call.start_time[1]
                                      THEN call.start_time[1] ELSE call.end_time[1]),
     Duration |-> OrZero(call.duration),
     Type     |-> type,
     Status   |-> call.status,
     Y        |-> y_position,
     Color    |-> GetStatusColor(call.status, type = "Tool", type = "Embedding")]

\* The dict appended to gantt_data for a call (the hover text, which is display
\* only, is left out; Task keeps the name without the prefix stripping).
Segment(call, type, name, y_position) ==
    [Task     |-> <<type, name>>,
     Start    |-> TimestampToDatetime(call.start_time[1]),
     Finish   |-> TimestampToDatetime(call.end_time[1]),
     Duration |-> OrZero(call.duration),
     Type     |-> type,
     Status   |-> call.status,
     Y        |-> y_position,
     Color    |-> GetStatusColor(call.status, type = "Tool", type = "Embedding")]

RECURSIVE AddCalls(_, _, _)
\* One of the three loops over a registry: appends a segment per eligible call.
AddCalls(data, calls, type) ==
    IF calls = <<>> THEN data
    ELSE LET call == Head(calls)
             name == IF type = "Tool" THEN call.toolName ELSE call.model
         IN AddCalls(IF Eligible(call)
                     THEN Append(data, Segment(call, type, name, Len(data)))
                     ELSE data,
                     Tail(calls), type)

\* A variant that puts x in front of the segments that start with it.
InsertBeforeTies(s, x) ==
    LET k == Cardinality({i \in DOMAIN s : s[i].Start < x.Start})
    IN SubSeq(s, 1, k) \o <<x>> \o SubSeq(s, k + 1, Len(s))

\* Where a stable sort puts x in the sorted s: behind every segment that does
\* not start later.
InsertByStart(s, x) ==
    LET k == Cardinality({i \in DOMAIN s : s[i].Start <= x.Start})
    IN SubSeq(s, 1, k) \o <<x>> \o SubSeq(s, k + 1, Len(s))

RECURSIVE SortFrom(_, _)
SortFrom(sorted, rest) ==
    IF rest = <<>> THEN sorted
    ELSE SortFrom(InsertByStart(sorted, Head(rest)), Tail(rest))

\* gantt_data.sort(key=lambda x: x['Start']): Python's sort is stable
SortByStart(data) == SortFrom(<<>>, data)

\* A variant that leaves each segment the row it was created with.
KeepY(data) == data

\* "for i, item in enumerate(gantt_data): item['Y'] = i"
ReassignY(data) == [i \in DOMAIN data |-> [data[i] EXCEPT !.Y = i - 1]]

\* all_times: the truthy instants of all records
AllTimes(g) ==
    LET calls == g.llm_calls \o g.tool_calls \o g.embedding_calls
    IN {calls[i].start_time[1] : i \in {j \in DOMAIN calls : Truthy(calls[j].start_time)}}
       \cup {calls[i].end_time[1] : i \in {j \in DOMAIN calls : Truthy(calls[j].end_time)}}

\* gantt_data as create_gantt_chart leaves it (empty on the early return).
CreateGanttData(g) ==
    IF AllTimes(g) = {} THEN <<>>
    ELSE ReassignY(SortByStart(
            AddCalls(AddCalls(AddCalls(<<>>, g.llm_calls, "LLM"),
                              g.tool_calls, "Tool"),
                     g.embedding_calls, "Embedding")))

\* ------------------------------------------- analyze_monitoring.py

\* The locals of analyze_trace_file: where it stands (read: in the loop,
\* stats: past the loop, json_error: returned from the JSONDecodeError handler,
\* crash: left by an exception nothing catches) and its two lists.
MonState(at, llm, tool) == [pc |-> at, llm_calls |-> llm, tool_calls |-> tool]

\* One iteration of "for line in f": a blank line is passed over, a line that
\* does not decode raises JSONDecodeError, which is caught outside the loop and
\* ends the function; a decoded event is filed by event['type'].
MonReadStep(st, line) ==
    IF IsBlank(line) THEN st
    ELSE IF ~Decodes(line) THEN [st EXCEPT !.pc = "json_error"]
    ELSE LET event == line.obj IN
    IF ~HasKey(event, "type") THEN [st EXCEPT !.pc = "crash"]
    ELSE IF event.type = "llm_call"
         THEN [st EXCEPT !.llm_calls = Append(@, event)]
    ELSE IF event.type = "tool_call"
         THEN [st EXCEPT !.tool_calls = Append(@, event)]
    ELSE st

RECURSIVE MonReadAll(_, _)
\* The loop over the lines of a file: it ends at the first exception,
\* otherwise at the end of the file, behind which the statistics follow.
MonReadAll(st, lines) ==
    IF st.pc # "read" THEN st
    ELSE IF lines = <<>> THEN [st EXCEPT !.pc = "stats"]
    ELSE MonReadAll(MonReadStep(st, Head(lines)), Tail(lines))

\* [e for e in evs if e['event'] == phase]
OfPhase(evs, phase) == SelectSeq(evs, LAMBDA e : e.event = phase)

\* [e['data'][key] for e in evs if key in e['data']]
Carried(evs, key) ==
    LET with == SelectSeq(evs, LAMBDA e : HasKey(e.data, key))
    IN [i \in DOMAIN with |-> with[i].data[key]]

RECURSIVE Sum(_)
Sum(s) == IF s = <<>> THEN 0 ELSE Head(s) + Sum(Tail(s))

Min(s) == CHOOSE x \in {s[i] : i \in DOMAIN s} : \A i \in DOMAIN s : x <= s[i]

Max(s) == CHOOSE x \in {s[i] : i \in DOMAIN s} : \A i \in DOMAIN s : x >= s[i]

\* The call and token statistics printed behind the loop: the three counts of
\* each list, and for the model calls that ended the extreme durations and the
\* token total, each printed only when some end event carries the field.  (The
\* averages, which are rounded for display, and the per-model and per-tool
\* counts are left out.)
MonStatisticsOf(llm, tool) ==
    LET llm_end_events == OfPhase(llm, "end")
        durations == Carried(llm_end_events, "duration")
        tokens == Carried(llm_end_events, "totalTokens")
    IN [llm_start  |-> Len(OfPhase(llm, "start")),
        llm_end    |-> Len(llm_end_events),
        llm_error  |-> Len(OfPhase(llm, "error")),
        fastest    |-> IF durations = <<>> THEN None ELSE Some(Min(durations)),
        slowest    |-> IF durations = <<>> THEN None ELSE Some(Max(durations)),
        tokens     |-> IF tokens = <<>> THEN None ELSE Some(Sum(tokens)),
        tool_start |-> Len(OfPhase(tool, "start")),
        tool_end   |-> Len(OfPhase(tool, "end")),
        tool_error |-> Len(OfPhase(tool, "error"))]

\* f"{total / n:.0f}": the quotient rounded to the nearest integer, a half to
\* the even one.
RoundedMean(total, n) ==
    LET q == total \div n
        r == total % n
    IN IF 2 * r < n THEN q
       ELSE IF 2 * r > n THEN q + 1
       ELSE IF q % 2 = 0 THEN q ELSE q + 1

\* data.get('awaitingApprovalDuration', 0)
ApprovalTime(event) == Get(event.data, "awaitingApprovalDuration", 0)

\* A variant that takes the waits of all tool end events, 0 when none is given.
ApprovalDurationsOfAll(tool_end_events) ==
    [i \in DOMAIN tool_end_events |-> ApprovalTime(tool_end_events[i])]

\* approval_durations: the positive waits of the tool end events, in order
ApprovalDurations(tool_end_events) ==
    LET waited == SelectSeq(tool_end_events, LAMBDA e : ApprovalTime(e) > 0)
    IN [i \in DOMAIN waited |-> ApprovalTime(waited[i])]

RECURSIVE ApprovalByTool(_, _)
\* approval_by_tool: the positive waits listed under their tool name, the
\* names in the order they first occur.
ApprovalByTool(tool_end_events, by_tool) ==
    IF tool_end_events = <<>> THEN by_tool
    ELSE LET event == Head(tool_end_events)
             tool_name == Get(event.data, "toolName", "unknown")
             known == {i \in DOMAIN by_tool : by_tool[i].tool = tool_name}
         IN ApprovalByTool(Tail(tool_end_events),
                IF ApprovalTime(event) <= 0 THEN by_tool
                ELSE IF known = {}
                THEN Append(by_tool, [tool |-> tool_name,
                                      times |-> <<ApprovalTime(event)>>])
                ELSE [i \in DOMAIN by_tool |->
                        IF i \in known
                        THEN [by_tool[i] EXCEPT !.times = Append(@, ApprovalTime(event))]
                        ELSE by_tool[i]])

\* The confirmation section: None when it is not printed; otherwise the
\* figures under its heading (None when there is no positive wait) with the
\* line printed for each tool.
ApprovalSection(all_events, tool_end_events) ==
    LET approval_events == SelectSeq(all_events,
                               LAMBDA e : Get(e, "type", "") = "user_confirmation")
        approval_requests == SelectSeq(approval_events,
                               LAMBDA e : Get(e, "event", "") = "approval_requested")
        approval_durations == ApprovalDurations(tool_end_events)
        by_tool == ApprovalByTool(tool_end_events, <<>>)
    IN IF approval_requests = <<>> /\ approval_durations = <<>> THEN None
       ELSE IF approval_durations = <<>> THEN Some([figures |-> None])
       ELSE Some([figures |->
                    Some([count   |-> Len(approval_durations),
                          mean    |-> RoundedMean(Sum(approval_durations),
                                                  Len(approval_durations)),
                          longest |-> Max(approval_durations),
                          shortest|-> Min(approval_durations),
                          total   |-> Sum(approval_durations),
                          by_tool |-> [i \in DOMAIN by_tool |->
                                         [tool  |-> by_tool[i].tool,
                                          mean  |-> RoundedMean(Sum(by_tool[i].times),
                                                                Len(by_tool[i].times)),
                                          count |-> Len(by_tool[i].times)]]])])

\* e['event'] and e['data'] are read without a default.
MonReadable(evs) ==
    \A i \in DOMAIN evs : HasKey(evs[i], "event") /\ HasKey(evs[i], "data")

\* "min_atomic_duration_ms = 100": the least width of a bar, in milliseconds
MinAtomicDurationMs == 100

\* (item['Finish'] - item['Start']).total_seconds() * 1000
DurationMs(item) == (item.Finish - item.Start) \div 1000

\* The bar added for a segment: as wide as the segment lasts but not narrower
\* than the least width, based at the segment's start, on the segment's row.
Bar(item) ==
    [x    |-> IF DurationMs(item) >= MinAtomicDurationMs
              THEN DurationMs(item) ELSE MinAtomicDurationMs,
     y    |-> item.Y,
     base |-> item.Start]

\* "for item in gantt_data: fig.add_trace(go.Bar(...))"
Bars(data) == [i \in DOMAIN data |-> Bar(data[i])]

\* ------------------------------------------ fusion_mode_analysis.py

\* len() of a JSON text, counted in fields: one unit per key of the object
\* (the characters of keys and values are not modelled).
TextSize(obj) == Cardinality(DOMAIN obj)

\* len(line.encode('utf-8')): the envelope and its payload.
LineSize(event) ==
    TextSize(event) + (IF HasKey(event, "data") THEN TextSize(event.data) ELSE 0)

\* One iteration of "for line in f": a blank line or one that does not decode
\* is passed over; a decoded event is kept and its size added.
FusReadStep(st, line) ==
    IF IsBlank(line) \/ ~Decodes(line) THEN st
    ELSE [events     |-> Append(st.events, line.obj),
          total_size |-> st.total_size + LineSize(line.obj)]

\* event_types: how many events carry each "type:event".
EventTypes(evs) ==
    [key \in {<<evs[i].type, evs[i].event>> : i \in DOMAIN evs} |->
        Cardinality({i \in DOMAIN evs : <<evs[i].type, evs[i].event>> = key})]

\* event['data'].get('id', ''), '' when absent
CallIdOf(event) == Get(event.data, "id", "")

RECURSIVE ScanCalls(_, _, _)
\* The loop over events that fills unique_calls and sums the payload sizes of
\* the events whose id was seen before; ids are compared as they are,
\* whatever the type of the event.
ScanCalls(evs, unique_calls, duplicated_data) ==
    IF evs = <<>>
    THEN [unique_calls |-> unique_calls, duplicated_data |-> duplicated_data]
    ELSE LET call_id == CallIdOf(Head(evs)) IN
         IF call_id = "" THEN ScanCalls(Tail(evs), unique_calls, duplicated_data)
         ELSE IF call_id \in unique_calls
         THEN ScanCalls(Tail(evs), unique_calls,
                        duplicated_data + TextSize(Head(evs).data))
         ELSE ScanCalls(Tail(evs), unique_calls \cup {call_id}, duplicated_data)

\* The dict analyze_trace_file returns (without the file name).
FusAnalysisOf(evs, total_size) ==
    LET scan == ScanCalls(evs, {}, 0)
    IN [total_events               |-> Len(evs),
        total_size_bytes           |-> total_size,
        event_types                |-> EventTypes(evs),
        unique_calls               |-> Cardinality(scan.unique_calls),
        estimated_duplicated_bytes |-> scan.duplicated_data]

\* event['type'], event['event'] and event['data'] are read without a default.
FusReadable(evs) ==
    \A i \in DOMAIN evs :
        HasKey(evs[i], "type") /\ HasKey(evs[i], "event") /\ HasKey(evs[i], "data")

\* The key an event type has in fusion mode: "type:end" becomes
\* "type:completed", the other keys stay (types and phases carry no colon).
FusedKey(key) == IF key[2] = "end" THEN <<key[1], "completed">> ELSE key

RECURSIVE SumCounts(_, _)
\* The sum of the counts a histogram holds for a set of its keys.
SumCounts(histogram, keys) ==
    IF keys = {} THEN 0
    ELSE LET k == CHOOSE x \in keys : TRUE
         IN histogram[k] + SumCounts(histogram, keys \ {k})

\* fusion_events behind the loop over traditional_events: the keys that end in
\* ":start" are passed over, the count of every other key is added under its
\* fused key.
FusionEventTypes(traditional_events) ==
    LET kept == {k \in DOMAIN traditional_events : k[2] # "start"}
    IN [key \in {FusedKey(k) : k \in kept} |->
           SumCounts(traditional_events, {k \in kept : FusedKey(k) = key})]

\* x / y * 100 of two ints, kept as the fraction it is.
Percentage(x, y) == [num |-> x * 100, den |-> y]

\* The two divisions of the return expression have a divisor other than 0.
SimulationDivides(traditional_analysis) ==
    traditional_analysis.total_events # 0 /\ traditional_analysis.total_size_bytes # 0

\* The dict simulate_fusion_conversion returns.
SimulateFusionConversion(traditional_analysis) ==
    LET fusion_events == FusionEventTypes(traditional_analysis.event_types)
        fusion_total_events == SumCounts(fusion_events, DOMAIN fusion_events)
        estimated_fusion_size == traditional_analysis.total_size_bytes
                                 - traditional_analysis.estimated_duplicated_bytes
    IN [fusion_events           |-> fusion_total_events,
        fusion_event_types      |-> fusion_events,
        estimated_size_bytes    |-> estimated_fusion_size,
        events_saved            |-> traditional_analysis.total_events - fusion_total_events,
        size_saved_bytes        |-> traditional_analysis.total_size_bytes
                                    - estimated_fusion_size,
        events_saved_percentage |-> Percentage(traditional_analysis.total_events
                                               - fusion_total_events,
                                               traditional_analysis.total_events),
        size_saved_percentage   |-> Percentage(traditional_analysis.total_size_bytes
                                               - estimated_fusion_size,
                                               traditional_analysis.total_size_bytes)]

\* ------------------------------------------------------------- the input

\* A decoded line {"type": type, "event": phase, "data": data}
Event(type, phase, data) == [type |-> type, event |-> phase, data |-> data]

JsonLine(obj) == [kind |-> "json", obj |-> obj]

\* A line json.loads rejects, and a line of white space.
BadLine == [kind |-> "bad"]

BlankLine == [kind |-> "blank"]

\* r without the key k
Without(r, k) == [f \in DOMAIN r \ {k} |-> r[f]]

\* Split protocol: the start and the end of model call m1.
LlmStart ==
    Event("llm_call", "start",
          [id |-> "m1", model |-> "gemini-pro", status |-> "started",
           startTime |-> 0, totalTokens |-> 7])

LlmEnd ==
    Event("llm_call", "end",
          [id |-> "m1", model |-> "gemini-pro", status |-> "completed",
           endTime |-> 200, duration |-> 200, totalTokens |-> 50])

\* Fused protocol: one terminal event with every field.
LlmCompleted ==
    Event("llm_call", "completed",
          [id |-> "m1", model |-> "gemini-pro", status |-> "completed",
           startTime |-> 100, endTime |-> 200, duration |-> 100, totalTokens |-> 50,
           responseText |-> [kind |-> "dict",
                             items |-> <<<<"functionCall", <<"grep">>>>>>]])

\* A terminal event with the required fields and an error text only.
LlmCompletedMin ==
    Event("llm_call", "error",
          [id |-> "m1", model |-> "gemini-pro", status |-> "error", startTime |-> 120,
           error |-> "quota"])

\* A second model call that starts at the instant m1 does.
LlmCompleted2 ==
    Event("llm_call", "completed",
          [id |-> "m2", model |-> "gemini-flash", status |-> "completed",
           startTime |-> 100, endTime |-> 150, duration |-> 50, totalTokens |-> 5,
           responseText |-> [kind |-> "str", toks |-> <<"functionCall", "grep">>]])

\* Fused protocol: a model call that was cancelled.
LlmCancelled ==
    Event("llm_call", "cancelled",
          [id |-> "m1", model |-> "gemini-pro", status |-> "cancelled",
           startTime |-> 100, endTime |-> 180, duration |-> 80])

\* Terminal events that lack a field the handler reads with data[...].
\* A failed call reported at instant 0, without endTime and duration.
LlmErrorAtZero == [LlmCompletedMin EXCEPT !.data.startTime = 0]

LlmCompletedNoStart == [LlmCompleted EXCEPT !.data = Without(@, "startTime")]

LlmCompletedNoModel == [LlmCompleted2 EXCEPT !.data = Without(@, "model")]

LlmCompletedNoId == [LlmCompleted2 EXCEPT !.data = Without(@, "id")]

ToolStart ==
    Event("tool_call", "start",
          [id |-> "t1", toolName |-> "grep", status |-> "executing",
           startTime |-> 1000, args |-> <<"pattern">>])

ToolCompleted ==
    Event("tool_call", "completed",
          [id |-> "t1", toolName |-> "grep", status |-> "completed",
           startTime |-> 1000, endTime |-> 1500, duration |-> 500])

\* The same without data.status, as a log that names the phase in "event" only.
ToolCompletedNoStatus == [ToolCompleted EXCEPT !.data = Without(@, "status")]

\* A closing event whose end instant lies before its start instant.
ToolCompletedSkew ==
    Event("tool_call", "completed",
          [id |-> "t1", toolName |-> "grep", status |-> "completed",
           startTime |-> 1500, endTime |-> 1000, duration |-> 500])

\* Split protocol: the end of a tool call that did not wait for an approval.
ToolEnd ==
    Event("tool_call", "end",
          [id |-> "t1", toolName |-> "grep", status |-> "completed",
           endTime |-> 1500, duration |-> 500])

\* The end of tool calls that waited for an approval.
ToolEndWaited ==
    Event("tool_call", "end",
          [id |-> "t1", toolName |-> "grep", status |-> "completed",
           endTime |-> 1500, duration |-> 500, awaitingApprovalDuration |-> 300])

ToolEndWaited2 ==
    Event("tool_call", "end",
          [id |-> "t2", toolName |-> "edit", status |-> "completed",
           endTime |-> 2500, duration |-> 900, awaitingApprovalDuration |-> 401])

\* The end of a tool call that reports a wait of 0.
ToolEndNoWait ==
    Event("tool_call", "end",
          [id |-> "t3", toolName |-> "read", status |-> "completed",
           endTime |-> 1700, duration |-> 100, awaitingApprovalDuration |-> 0])

\* A tool call whose id is the one the model call m1 uses.
ToolCompletedM1 ==
    Event("tool_call", "completed",
          [id |-> "m1", toolName |-> "read", status |-> "completed",
           startTime |-> 100, endTime |-> 300, duration |-> 200])

\* An embedding call that starts at instant 0.
EmbeddingCompleted ==
    Event("embedding_call", "completed",
          [id |-> "e1", model |-> "gemini-embedding-001", status |-> "completed",
           startTime |-> 0, endTime |-> 200, duration |-> 200, textCount |-> 3])

Confirmation ==
    Event("user_confirmation", "approval_requested",
          [id |-> "c1", toolCallId |-> "t1", toolName |-> "grep",
           confirmationType |-> "exec", timestamp |-> 900])

\* An event of a type no handler takes.
OtherEvent == Event("session", "start", [id |-> "s1"])

\* The lines a trace file is made of.
Lines ==
    {JsonLine(e) : e \in {LlmStart, LlmEnd, LlmCompleted, LlmCompletedMin, LlmCompleted2,
                          LlmCancelled, LlmErrorAtZero,
                          LlmCompletedNoStart, LlmCompletedNoModel, LlmCompletedNoId,
                          ToolStart, ToolCompleted, ToolCompletedNoStatus,
                          ToolCompletedM1, ToolCompletedSkew,
                          ToolEnd, ToolEndWaited, ToolEndWaited2, ToolEndNoWait,
                          EmbeddingCompleted, Confirmation, OtherEvent}}
    \cup {BadLine, BlankLine}

\* Every file of at most MaxLines lines.
Traces == UNION {[1..n -> Lines] : n \in 0..MaxLines}

\* ------------------------------------------------------------------ main

Init ==
    /\ trace \in Traces
    /\ line_num = 0
    /\ pc = "load"
    /\ events = <<>>
    /\ llm_calls = <<>>
    /\ tool_calls = <<>>
    /\ embedding_calls = <<>>
    /\ user_confirmations = <<>>
    /\ summary = None
    /\ anomaly = None
    /\ gantt_data = <<>>
    /\ fig_bars = <<>>
    /\ mon_pc = "read"
    /\ mon_line = 0
    /\ mon_llm_calls = <<>>
    /\ mon_tool_calls = <<>>
    /\ mon_report = None
    /\ mon_approval = None
    /\ fus_pc = "read"
    /\ fus_line = 0
    /\ fus_events = <<>>
    /\ fus_total_size = 0
    /\ fus_analysis = None
    /\ fus_fusion = None

\* load_trace_data, one line of the file: the line is skipped, or its event is
\* stored and handled; an exception in a handler ends the load with False, on
\* which main() exits with status 1.
LoadLine ==
    /\ pc = "load"
    /\ line_num < Len(trace)
    /\ LET r == LoadStep(Current, trace[line_num + 1]) IN
        /\ events' = r.g.events
        /\ llm_calls' = r.g.llm_calls
        /\ tool_calls' = r.g.tool_calls
        /\ embedding_calls' = r.g.embedding_calls
        /\ user_confirmations' = r.g.user_confirmations
        /\ pc' = IF r.raised THEN "exit1" ELSE "load"
    /\ line_num' = line_num + 1
    /\ UNCHANGED <<trace, summary, anomaly, gantt_data, fig_bars, monVars, fusVars>>

\* load_trace_data at the end of the file: "return len(self.events) > 0".
LoadEnd ==
    /\ pc = "load"
    /\ line_num = Len(trace)
    /\ pc' = IF Len(events) > 0 THEN "summary" ELSE "exit1"
    /\ UNCHANGED <<trace, line_num, events, llm_calls, tool_calls, embedding_calls,
                   user_confirmations, summary, anomaly, gantt_data, fig_bars, monVars, fusVars>>

\* generator.print_summary()
PrintSummary ==
    /\ pc = "summary"
    /\ summary' = Some(Summary(Current))
    /\ pc' = "chart"
    /\ UNCHANGED <<trace, line_num, events, llm_calls, tool_calls, embedding_calls,
                   user_confirmations, anomaly, gantt_data, fig_bars, monVars, fusVars>>

\* generator.create_gantt_chart(), which starts with _analyze_missing_events()
CreateGanttChart ==
    /\ pc = "chart"
    /\ anomaly' = AnalyzeMissingEvents(Current)
    /\ gantt_data' = CreateGanttData(Current)
    /\ fig_bars' = Bars(CreateGanttData(Current))
    /\ pc' = "done"
    /\ UNCHANGED <<trace, line_num, events, llm_calls, tool_calls, embedding_calls,
                   user_confirmations, summary, monVars, fusVars>>

Next == LoadLine \/ LoadEnd \/ PrintSummary \/ CreateGanttChart

Spec == Init /\ [][Next]_vars

\* analyze_trace_file, one line of the file.
MonReadLine ==
    /\ mon_pc = "read"
    /\ mon_line < Len(trace)
    /\ LET st == MonReadStep(MonState(mon_pc, mon_llm_calls, mon_tool_calls),
                             trace[mon_line + 1]) IN
        /\ mon_pc' = st.pc
        /\ mon_llm_calls' = st.llm_calls
        /\ mon_tool_calls' = st.tool_calls
    /\ mon_line' = mon_line + 1
    /\ UNCHANGED <<trace, ganttVars, fusVars, mon_report, mon_approval>>

\* analyze_trace_file behind the loop: the call statistics are printed.  The
\* statements that follow them only print.
MonStatistics ==
    /\ mon_pc = "read"
    /\ mon_line = Len(trace)
    /\ IF MonReadable(mon_llm_calls) /\ MonReadable(mon_tool_calls)
       THEN /\ mon_report' = Some(MonStatisticsOf(mon_llm_calls, mon_tool_calls))
            /\ mon_pc' = "stats"
       ELSE /\ mon_report' = mon_report
            /\ mon_pc' = "crash"
    /\ UNCHANGED <<trace, ganttVars, fusVars, mon_line, mon_llm_calls, mon_tool_calls,
                   mon_approval>>

\* analyze_trace_file from the tool result details to its end: the details
\* only print; the confirmation section is printed when it has something to
\* show; the timeline then sorts all events by event['timestamp'], which raises
\* KeyError when an event has none (what the timeline prints is not modelled).
MonConfirmationStats ==
    /\ mon_pc = "stats"
    /\ mon_approval' = ApprovalSection(mon_llm_calls \o mon_tool_calls,
                                       OfPhase(mon_tool_calls, "end"))
    /\ mon_pc' = IF \A i \in DOMAIN (mon_llm_calls \o mon_tool_calls) :
                       HasKey((mon_llm_calls \o mon_tool_calls)[i], "timestamp")
                 THEN "done" ELSE "crash"
    /\ UNCHANGED <<trace, ganttVars, fusVars, mon_line, mon_llm_calls, mon_tool_calls,
                   mon_report>>

MonNext == MonReadLine \/ MonStatistics \/ MonConfirmationStats

\* A run of analyze_monitoring.py on the trace file.
SpecMonitoring == Init /\ [][MonNext]_vars

\* fusion_mode_analysis.analyze_trace_file, one line of the file.
FusReadLine ==
    /\ fus_pc = "read"
    /\ fus_line < Len(trace)
    /\ LET st == FusReadStep([events |-> fus_events, total_size |-> fus_total_size],
                             trace[fus_line + 1]) IN
        /\ fus_events' = st.events
        /\ fus_total_size' = st.total_size
    /\ fus_line' = fus_line + 1
    /\ UNCHANGED <<trace, ganttVars, monVars, fus_pc, fus_analysis, fus_fusion>>

\* fusion_mode_analysis.analyze_trace_file behind the loop: the event types
\* are counted, the calls scanned and the dict returned.
FusAnalyze ==
    /\ fus_pc = "read"
    /\ fus_line = Len(trace)
    /\ IF FusReadable(fus_events)
       THEN /\ fus_analysis' = Some(FusAnalysisOf(fus_events, fus_total_size))
            /\ fus_pc' = "returned"
       ELSE /\ fus_analysis' = fus_analysis
            /\ fus_pc' = "crash"
    /\ UNCHANGED <<trace, ganttVars, monVars, fus_line, fus_events, fus_total_size,
                   fus_fusion>>

\* main(): simulate_fusion_conversion on the dict analyze_trace_file returned;
\* a division by zero in it ends the run with ZeroDivisionError.
FusSimulate ==
    /\ fus_pc = "returned"
    /\ IF SimulationDivides(fus_analysis[1])
       THEN /\ fus_fusion' = Some(SimulateFusionConversion(fus_analysis[1]))
            /\ fus_pc' = "simulated"
       ELSE /\ fus_fusion' = fus_fusion
            /\ fus_pc' = "sim_crash"
    /\ UNCHANGED <<trace, ganttVars, monVars, fus_line, fus_events, fus_total_size,
                   fus_analysis>>

FusNext == FusReadLine \/ FusAnalyze \/ FusSimulate

\* A call of fusion_mode_analysis.analyze_trace_file on the trace file.
SpecFusion == Init /\ [][FusNext]_vars

\* ============================================================== the claims

\* The trail of a record that saw a 'start' event and then an 'end' event.
IsSplitPair(trail) ==
    /\ Len(trail) = 2
    /\ trail[1].event = "start"
    /\ trail[2].event = "end"

C2_FusedToolEventIngested ==
    (trace = <<JsonLine(ToolCompletedNoStatus)>> /\ line_num = 1) =>
        /\ pc # "exit1"
        /\ Len(tool_calls) = 1
        /\ tool_calls[1].id = "t1"
        /\ tool_calls[1].status = "completed"
        /\ tool_calls[1].duration = Some(500)
        /\ Eligible(tool_calls[1])
        /\ pc = "done" => Len(gantt_data) = 1

\* The confirmation events and the tool events the load has stored.
StoredEvents(type) == {k \in DOMAIN events : events[k].type = type}

\* C3 as claimed: once the stream has been read, every confirmation whose tool
\* call id has a tool_call event in the log is in that Tool record's
\* confirmations, whichever of the two came first.
C3_ConfirmationLinkedInAnyOrder ==
    pc \in {"summary", "chart", "done"} =>
        \A c \in StoredEvents("user_confirmation") :
            (\E t \in StoredEvents("tool_call") :
                events[t].data.id = events[c].data.toolCallId) =>
            \E i \in DOMAIN tool_calls :
                /\ tool_calls[i].id = events[c].data.toolCallId
                /\ \E j \in DOMAIN tool_calls[i].confirmations :
                       tool_calls[i].confirmations[j].id = events[c].data.id

RECURSIVE LastWriter(_, _, _)
\* The value of key in the last event of the trail that carries it.
LastWriter(trail, key, default) ==
    IF trail = <<>> THEN default
    ELSE IF HasKey(trail[Len(trail)].data, key) THEN trail[Len(trail)].data[key]
    ELSE LastWriter(SubSeq(trail, 1, Len(trail) - 1), key, default)

\* The same for an optional field, which has a stored value once an event
\* carried the key.
IsLastWriterOpt(value, trail, key) ==
    (\E k \in DOMAIN trail : HasKey(trail[k].data, key)) =>
        value = Some(LastWriter(trail, key, 0))

MergedEvents(trail, phases) ==
    SelectSeq(trail, LAMBDA e : /\ HasKey(e, "event")
                                /\ e.event \in phases
                                /\ HasKey(e.data, "status")
                                /\ HasKey(e.data, "startTime"))

RECURSIVE LastError(_)
\* The last non-empty error text of a sequence of events ('' when none).
LastError(evs) ==
    IF evs = <<>> THEN ""
    ELSE IF Get(evs[Len(evs)].data, "error", "") # "" THEN evs[Len(evs)].data.error
    ELSE LastError(SubSeq(evs, 1, Len(evs) - 1))

RECURSIVE LastText(_, _)
\* The saved text of the last event of a sequence that carries key ('' when none).
LastText(evs, key) ==
    IF evs = <<>> THEN <<>>
    ELSE IF HasKey(evs[Len(evs)].data, key) THEN SaveText(evs[Len(evs)].data[key])
    ELSE LastText(SubSeq(evs, 1, Len(evs) - 1), key)

\* The fields every category merges, for a record with merged events m.
TimingIsOf(call, m) ==
    IF m = <<>>
    THEN call.start_time = None /\ call.end_time = None /\ call.duration = None
    ELSE LET d == m[Len(m)].data IN
         /\ call.start_time = Some(d.startTime)
         /\ call.end_time = Some(Get(d, "endTime", d.startTime))
         /\ call.duration = Some(Get(d, "duration", 0))

\* The payload that decides the fields stored by value: the last merged event's,
\* and the creating event's while nothing was merged.
Deciding(call, m) == IF m = <<>> THEN call.events[1].data ELSE m[Len(m)].data

AbortedOn(has(_)) ==
    /\ pc = "exit1"
    /\ line_num > 0
    /\ Decodes(trace[line_num])
    /\ has(trace[line_num].obj.data)

\* The lines of the file that decode.
JsonLines(lines) == SelectSeq(lines, Decodes)

\* C5 as claimed: an event whose payload has an id but lacks another field does
\* not abort the run, and every later event of the log is still ingested: once
\* the load is over, every decoded line of a file whose events all carry an id
\* is among the stored events.
C5_MissingFieldNeverAborts ==
    /\ ~AbortedOn(LAMBDA data : HasKey(data, "id"))
    /\ (pc # "load" /\ \A k \in DOMAIN trace :
                          Decodes(trace[k]) => HasKey(trace[k].obj.data, "id"))
       => Len(events) = Len(JsonLines(trace))

\* The registries without the list of all events.
Registries(g) ==
    <<g.llm_calls, g.tool_calls, g.embedding_calls, g.user_confirmations>>

\* The file without the events that carry no call id.
DropNoId(lines) ==
    SelectSeq(lines, LAMBDA line : Decodes(line) => HasKey(line.obj.data, "id"))

\* C6 as claimed: an event without a call id is dropped and the run goes on:
\* the load does not end on it, and once the load is over the registries are
\* those of the same file without that event.
C6_EventWithoutIdDropped ==
    /\ ~AbortedOn(LAMBDA data : ~HasKey(data, "id"))
    /\ pc # "load" =>
          Registries(Current) = Registries(LoadAll(NewGenerator, DropNoId(trace)).g)

\* ------------------------------------------------------------ the timeline

\* The registry of a segment type.
RegistryOf(type) ==
    CASE type = "LLM" -> llm_calls
      [] type = "Tool" -> tool_calls
      [] type = "Embedding" -> embedding_calls

SegmentTypes == {"LLM", "Tool", "Embedding"}

\* How many elements of the sequence s satisfy test.
Count(s, test(_)) == Cardinality({i \in DOMAIN s : test(s[i])})

\* C8 as claimed: once the chart is built, the timeline holds exactly one
\* segment for every record of a category whose two instants are both set,
\* whatever integers they are (0 included), and none for the other records.
C8_OneSegmentPerTimedRecord ==
    pc = "done" =>
        \A type \in SegmentTypes :
            Count(gantt_data, LAMBDA seg : seg.Type = type)
            = Count(RegistryOf(type),
                    LAMBDA call : call.start_time # None /\ call.end_time # None)

\* The record has received no event of a phase that closes a call.
OnlyNonTerminal(call) ==
    \A i \in DOMAIN call.events :
        call.events[i].event \notin {"completed", "cancelled", "error"}

\* C9: a record that has received only non-terminal events has no instant set
\* at any moment of the load, whatever was ingested for other ids, and the
\* finished timeline holds, per category, no more segments than there are
\* records that received a terminal event: none is left for such a record.
C9_StartOnlyRecordNotInTimeline ==
    /\ \A type \in SegmentTypes :
         \A i \in DOMAIN RegistryOf(type) :
            OnlyNonTerminal(RegistryOf(type)[i])
            => /\ RegistryOf(type)[i].start_time = None
               /\ RegistryOf(type)[i].end_time = None
    /\ pc = "done" =>
         \A type \in SegmentTypes :
            Count(gantt_data, LAMBDA seg : seg.Type = type)
            <= Count(RegistryOf(type), LAMBDA call : ~OnlyNonTerminal(call))

\* A finished, non-empty timeline next to a tool record that has only its start
\* event, whose payload carries a start instant.
C9_Witness ==
    /\ pc = "done"
    /\ gantt_data # <<>>
    /\ \E i \in DOMAIN tool_calls : tool_calls[i].events = <<ToolStart>>

\* Every arrangement of the sequence s.
Arrangements(s) ==
    {[i \in DOMAIN s |-> s[f[i]]] :
        f \in {g \in [DOMAIN s -> DOMAIN s] : \A a, b \in DOMAIN s : a # b => g[a] # g[b]}}

\* C10 as claimed: the segments are non-decreasing in start and the order among
\* equal starts depends on category and id only, so the same records first
\* seen in any other order give the same segment sequence.
C10_OrderIndependentOfFirstSeen ==
    pc = "done" =>
        /\ \A i, j \in DOMAIN gantt_data :
              i < j => gantt_data[i].Start <= gantt_data[j].Start
        /\ \A l \in Arrangements(llm_calls), t \in Arrangements(tool_calls),
              e \in Arrangements(embedding_calls) :
              CreateGanttData(Generator(events, l, t, e, user_confirmations))
              = gantt_data

\* What identifies a segment apart from its row.
Key(type, name, start, finish) ==
    [Type |-> type, Name |-> name, Start |-> start, Finish |-> finish]

\* The keys of the records of a registry that have both instants, in the order
\* the records were first seen.
FirstSeenKeys(type) ==
    LET timed == SelectSeq(RegistryOf(type), Eligible)
    IN [i \in DOMAIN timed |->
          Key(type,
              IF type = "Tool" THEN timed[i].toolName ELSE timed[i].model,
              1000 * timed[i].start_time[1], 1000 * timed[i].end_time[1])]

\* The keys of the timeline's segments, in timeline order.
TimelineKeys ==
    [i \in DOMAIN gantt_data |->
        Key(gantt_data[i].Type, gantt_data[i].Task[2],
            gantt_data[i].Start, gantt_data[i].Finish)]

\* C10, amended: the segments are non-decreasing in start, rows are numbered
\* from 0 in that order, and the segments of one start instant stand in the
\* order model calls, tool calls, embedding calls and, within a category, in
\* the order their records were first seen in the log.
C10_TiesKeepFirstSeenOrder ==
    pc = "done" =>
        /\ \A i, j \in DOMAIN gantt_data :
              i < j => gantt_data[i].Start <= gantt_data[j].Start
        /\ \A i \in DOMAIN gantt_data : gantt_data[i].Y = i - 1
        /\ \A i \in DOMAIN gantt_data :
              LET SameStart(k) == k.Start = gantt_data[i].Start
              IN SelectSeq(TimelineKeys, SameStart)
                 = SelectSeq(FirstSeenKeys("LLM") \o FirstSeenKeys("Tool")
                             \o FirstSeenKeys("Embedding"), SameStart)

\* A finished timeline with two segments of one start instant whose records
\* were first seen in the order m2, m1.
C10_Witness ==
    /\ pc = "done"
    /\ \E i, j \in DOMAIN gantt_data :
          i < j /\ gantt_data[i].Start = gantt_data[j].Start
    /\ Len(llm_calls) = 2
    /\ llm_calls[1].id = "m2" /\ llm_calls[2].id = "m1"

\* --------------------------------------------------------- malformed lines

\* The file without the lines that fail to decode.
DropMalformed(lines) == SelectSeq(lines, LAMBDA line : IsBlank(line) \/ Decodes(line))

\* C7 as claimed, for the monitoring analyzer: a line that fails to decode does
\* not stop the lines after it, and once the loop is left the two lists and the
\* printed statistics are those of the same file without its malformed lines.
C7_MalformedLineSkipped ==
    /\ mon_pc # "json_error"
    /\ mon_pc # "read" =>
        LET clean == MonReadAll(MonState("read", <<>>, <<>>), DropMalformed(trace))
        IN /\ mon_llm_calls = clean.llm_calls
           /\ mon_tool_calls = clean.tool_calls
           /\ mon_report = Some(MonStatisticsOf(clean.llm_calls, clean.tool_calls))

\* The gantt loader, for comparison: its load never ends on a malformed line, and
\* once it is over the generator is the one the same file without its malformed
\* lines gives.
GanttLoaderSkipsMalformed ==
    /\ ~(pc = "exit1" /\ line_num > 0 /\ line_num < Len(trace)
         /\ ~IsBlank(trace[line_num]) /\ ~Decodes(trace[line_num]))
    /\ pc # "load" =>
          LET clean == LoadAll(NewGenerator, DropMalformed(trace))
          IN Current = clean.g /\ (pc = "exit1") = (clean.raised \/ clean.g.events = <<>>)

\* ------------------------------------------------------- order of ingestion

\* Two lines are events of the same call: same category, same id.
SameCall(a, b) ==
    /\ Decodes(a) /\ Decodes(b)
    /\ a.obj.type = b.obj.type
    /\ HasKey(a.obj.data, "id") /\ HasKey(b.obj.data, "id")
    /\ a.obj.data.id = b.obj.data.id

\* The reorderings of a file that keep the events of each call in their order.
ReorderingsPerId(lines) ==
    LET keeps(f) == \A a, b \in DOMAIN lines :
                        (a < b /\ SameCall(lines[f[a]], lines[f[b]])) => f[a] < f[b]
        one(f) == \A a, b \in DOMAIN lines : a # b => f[a] # f[b]
    IN {[i \in DOMAIN lines |-> lines[f[i]]] :
          f \in {g \in [DOMAIN lines -> DOMAIN lines] : one(g) /\ keeps(g)}}

\* The records of a registry, whatever order they were first seen in.
Records(dict) == {dict[i] : i \in DOMAIN dict}

\* C11 as claimed: when a file has loaded (no event of it failed), every
\* reordering of it that keeps the events of each call id in their order
\* leaves the same final record for every call id of every registry.
C11_IngestionCommutesAcrossIds ==
    pc = "summary" =>
        \A lines \in ReorderingsPerId(trace) :
            LET g == LoadAll(NewGenerator, lines).g
            IN /\ Records(g.llm_calls) = Records(llm_calls)
               /\ Records(g.tool_calls) = Records(tool_calls)
               /\ Records(g.embedding_calls) = Records(embedding_calls)
               /\ Records(g.user_confirmations) = Records(user_confirmations)

\* ------------------------------------------------------------ idempotence

\* The decoded events a file can hold.
SampleEvents == {line.obj : line \in {l \in Lines : Decodes(l)}}

\* A record without its events trail.
Fields(call) == [k \in DOMAIN call \ {"events"} |-> call[k]]

\* The records of a registry without their trails, in registry order.
FieldsOf(dict) == [i \in DOMAIN dict |-> Fields(dict[i])]

\* C12 as claimed: in any state of the load and for any event, ingesting the
\* event a second time right after the first leaves every record with the
\* field values it had after the first, confirmations included; only events
\* trails differ.
C12_ReingestionIdempotent ==
    pc = "load" =>
        \A event \in SampleEvents :
            LET once  == Dispatch(Current, event)
                twice == Dispatch(once.g, event)
            IN (~once.raised /\ ~twice.raised) =>
                /\ FieldsOf(twice.g.llm_calls) = FieldsOf(once.g.llm_calls)
                /\ FieldsOf(twice.g.tool_calls) = FieldsOf(once.g.tool_calls)
                /\ FieldsOf(twice.g.embedding_calls) = FieldsOf(once.g.embedding_calls)
                /\ twice.g.user_confirmations = once.g.user_confirmations

\* ------------------------------------------------------------------ status

Unresolved(g) ==
    {i \in DOMAIN g.user_confirmations :
        ~InDict(g.tool_calls, g.user_confirmations[i].toolCallId)}

\* C14 as claimed: once the summary is printed, every confirmation event whose
\* tool call never got a record is still held, and the summary reports the
\* unresolved confirmations: it is not the summary the same registries print
\* when no confirmation is held.
C14_NoConfirmationLost ==
    pc \in {"chart", "done"} =>
        /\ \A k \in DOMAIN events :
              (events[k].type = "user_confirmation"
               /\ ~InDict(tool_calls, events[k].data.toolCallId))
              => InDict(user_confirmations, events[k].data.id)
        /\ Unresolved(Current) # {}
           => summary # Some(Summary([Current EXCEPT !.user_confirmations = <<>>]))

\* ------------------------------------------------------- consistency check

\* The model records whose last response text, among the events that closed
\* them, mentions a function call.
InferredFunctionCalls ==
    Count(llm_calls,
          LAMBDA call : MentionsFunctionCall(
              LastText(MergedEvents(call.events, {"completed", "error"}),
                       "responseText")))

\* C15: the finished run has reported an anomaly exactly when the number of
\* model records whose response text mentions a function call exceeds the
\* number of tool records, and the report then gives that number as expected
\* and the number of tool records as observed; otherwise there is no report.
C15_AnomalyIffInferredExceedsTools ==
    pc = "done" =>
        IF InferredFunctionCalls > Len(tool_calls)
        THEN /\ anomaly # None
             /\ anomaly[1].llm_with_function_calls = InferredFunctionCalls
             /\ anomaly[1].tool_calls_count = Len(tool_calls)
        ELSE anomaly = None

\* A finished run with two model records that mention a function call and one
\* tool record: the report gives expected 2, observed 1.
C15_Witness ==
    /\ pc = "done"
    /\ InferredFunctionCalls = 2
    /\ Len(tool_calls) = 1
    /\ anomaly # None

\* ----------------------------------------------------------- id namespaces

\* The log type of the events a registry takes.
EventTypeOf(type) ==
    CASE type = "LLM" -> "llm_call"
      [] type = "Tool" -> "tool_call"
      [] type = "Embedding" -> "embedding_call"

\* The gantt loader, for comparison: a registry holds one record per id, and a
\* record's trail holds events of its own category and id only, so a record is
\* never touched by an event of another category that uses its id.
RegistriesScopedByCategory ==
    \A type \in SegmentTypes :
        LET dict == RegistryOf(type) IN
        /\ \A i, j \in DOMAIN dict : dict[i].id = dict[j].id => i = j
        /\ \A i \in DOMAIN dict : \A k \in DOMAIN dict[i].events :
              /\ dict[i].events[k].type = EventTypeOf(type)
              /\ dict[i].events[k].data.id = dict[i].id

\* C16 as claimed, for the fusion analyzer: ids are scoped by category, so the
\* calls it counts as unique are the distinct pairs of category and id among
\* the events that carry an id.
C16_IdsScopedByCategory ==
    fus_pc = "returned" =>
        fus_analysis[1].unique_calls
        = Cardinality({<<fus_events[i].type, fus_events[i].data.id>> :
                          i \in {k \in DOMAIN fus_events :
                                    CallIdOf(fus_events[k]) # ""}})

\* ------------------------------------------------------------ events trail

\* The events of the log so far that belong to a record of a category.
EventsFor(type, id) ==
    SelectSeq(events, LAMBDA e : /\ e.type = EventTypeOf(type)
                                 /\ HasKey(e.data, "id")
                                 /\ e.data.id = id)

\* While no event has failed, the trail of every record is the sequence of
\* the events ingested so far for its id, in log order.
TrailIsLog ==
    pc # "exit1" =>
        \A type \in SegmentTypes : \A i \in DOMAIN RegistryOf(type) :
            RegistryOf(type)[i].events = EventsFor(type, RegistryOf(type)[i].id)

\* A step keeps every record and every entry of its trail, and the step that
\* ingests an event for a record's id makes the trail one entry longer.
TrailGrows ==
    \A type \in SegmentTypes : \A i \in DOMAIN RegistryOf(type) :
        LET old == RegistryOf(type)[i].events
            new == RegistryOf(type)'[i].events
        IN /\ i \in DOMAIN RegistryOf(type)'
           /\ Len(new) >= Len(old)
           /\ SubSeq(new, 1, Len(old)) = old

\* C17: every event processed for a call id is appended to its record's trail,
\* changed field or not: the trail is the log of that id's events in order, so
\* its length is the number of events ingested for the id, and no step
\* modifies or removes an earlier entry.
C17_TrailIsAppendOnlyLog == []TrailIsLog /\ [][TrailGrows]_vars

\* A record that took the same closing event twice (the second changed no
\* field) and holds both in its trail.
C17_Witness ==
    \E i \in DOMAIN llm_calls : llm_calls[i].events = <<LlmCompleted, LlmCompleted>>

\* ------------------------------------------------------------ clock skew

IdsIn(evs) ==
    {evs[i].data.id : i \in {k \in DOMAIN evs : HasKey(evs[k].data, "id")}}

\* The events of the log so far of one log type.
EventsOfType(eventType) == SelectSeq(events, LAMBDA e : e.type = eventType)

\* The gantt loader's summary, for comparison: each count is the number of
\* distinct ids seen for the category, dangling records included, and the
\* records without a closing event add nothing to the duration totals.
SummaryCountsDistinctIds ==
    pc \in {"chart", "done"} =>
        /\ summary[1].llm_count = Cardinality(IdsIn(EventsOfType("llm_call")))
        /\ summary[1].tool_count = Cardinality(IdsIn(EventsOfType("tool_call")))
        /\ summary[1].embedding_count
             = Cardinality(IdsIn(EventsOfType("embedding_call")))
        /\ \A type \in SegmentTypes :
              SumDuration(SelectSeq(RegistryOf(type), OnlyNonTerminal)) = 0

\* C18 as claimed, for the monitoring analyzer: the total-calls figure of a
\* category is the number of distinct call ids seen for it, whether the log
\* uses the split or the fused protocol.
C18_TotalCallsAreDistinctIds ==
    mon_pc = "stats" =>
        /\ mon_report[1].llm_start = Cardinality(IdsIn(mon_llm_calls))
        /\ mon_report[1].tool_start = Cardinality(IdsIn(mon_tool_calls))

\* ------------------------------------------------------------ approval wait

\* The confirmation section of the monitoring analyzer has been passed.
ConfirmationStatsDone == mon_pc \in {"done", "crash"} /\ mon_report # None

\* The tool end events of the log whose payload carries a positive wait.
WaitedEnds ==
    SelectSeq(mon_tool_calls,
              LAMBDA e : /\ e.event = "end"
                         /\ HasKey(e.data, "awaitingApprovalDuration")
                         /\ e.data.awaitingApprovalDuration > 0)

\* The waits of a sequence of events.
WaitsOf(evs) == [i \in DOMAIN evs |-> evs[i].data.awaitingApprovalDuration]

\* m is the mean of the numbers of s, rounded to a nearest integer.
IsRoundedMeanOf(m, s) ==
    LET diff == m * Len(s) - Sum(s)
    IN 2 * (IF diff < 0 THEN -diff ELSE diff) <= Len(s)

C21_EndNotBeforeStart ==
    \A type \in SegmentTypes : \A i \in DOMAIN RegistryOf(type) :
        LET call == RegistryOf(type)[i] IN
        (call.start_time # None /\ call.end_time # None)
        => call.end_time[1] >= call.start_time[1]

\* The phases that close a call of a category.
ClosingPhases(type) ==
    IF type = "Tool" THEN {"completed", "cancelled", "error"} ELSE {"completed", "error"}

\* C21, amended: the instants are stored as reported, not ordered.  A record
\* with both instants set holds the startTime of its last closing event and
\* that event's endTime (its startTime when it carries none), so its end lies
\* before its start exactly when that event reported them so.
C21_InstantsAsLastEventReports ==
    \A type \in SegmentTypes : \A i \in DOMAIN RegistryOf(type) :
        LET call == RegistryOf(type)[i]
            m == MergedEvents(call.events, ClosingPhases(type))
        IN (call.start_time # None /\ call.end_time # None)
           => /\ m # <<>>
              /\ LET d == m[Len(m)].data IN
                 /\ call.start_time[1] = d.startTime
                 /\ call.end_time[1] = IF HasKey(d, "endTime") THEN d.endTime
                                       ELSE d.startTime
                 /\ (call.end_time[1] < call.start_time[1])
                    <=> (HasKey(d, "endTime") /\ d.endTime < d.startTime)

\* A tool record whose stored end lies before its stored start.
C21_Witness ==
    \E i \in DOMAIN tool_calls :
        /\ tool_calls[i].start_time # None /\ tool_calls[i].end_time # None
        /\ tool_calls[i].end_time[1] < tool_calls[i].start_time[1]

\* ------------------------------------------------------------ display rank

\* C22: in the finished timeline the segment at position i, counting from 0,
\* has rank i, so the ranks are 0..n-1 without gap or repeat, whatever the
\* order in which the segments were created.
C22_RankIsSortedPosition ==
    pc = "done" =>
        /\ \A i \in DOMAIN gantt_data : gantt_data[i].Y = i - 1
        /\ {gantt_data[i].Y : i \in DOMAIN gantt_data} = 0 .. (Len(gantt_data) - 1)

\* A finished timeline whose first segment is a tool call and whose second is
\* a model call: segments are created model calls first, so the sort has
\* moved the two.
C22_Witness ==
    /\ pc = "done"
    /\ Len(gantt_data) = 2
    /\ gantt_data[1].Type = "Tool"
    /\ gantt_data[2].Type = "LLM"
    /\ gantt_data[1].Start < gantt_data[2].Start

\* ------------------------------------------------------ fused terminal event

\* C23 as claimed: in every category, a record whose only event is a fused
\* terminal event (completed, error or cancelled) that carries a start and an
\* end instant (other than 0) has both instants set as the event gives them.
C23_FusedTerminalSetsInstants ==
    \A type \in SegmentTypes : \A i \in DOMAIN RegistryOf(type) :
        LET call == RegistryOf(type)[i]
            e == call.events[1]
        IN (/\ Len(call.events) = 1
            /\ e.event \in {"completed", "error", "cancelled"}
            /\ HasKey(e.data, "startTime") /\ HasKey(e.data, "endTime")
            /\ e.data.startTime # 0 /\ e.data.endTime # 0)
           => /\ call.start_time = Some(e.data.startTime)
              /\ call.end_time = Some(e.data.endTime)

\* ------------------------------------------------- confirmation ownership

\* How often the confirmation id occurs in the confirmations of a tool record.
Occurrences(call, id) == Count(call.confirmations, LAMBDA conf : conf.id = id)

\* C24 as claimed: in every state, each held confirmation id occurs in the
\* confirmations of at most one tool record, and there at most once.
C24_ConfirmationLinkedAtMostOnce ==
    \A k \in DOMAIN user_confirmations :
        LET id == user_confirmations[k].id IN
        /\ \A i \in DOMAIN tool_calls : Occurrences(tool_calls[i], id) <= 1
        /\ \A i, j \in DOMAIN tool_calls :
              (Occurrences(tool_calls[i], id) > 0 /\ Occurrences(tool_calls[j], id) > 0)
              => i = j

\* ------------------------------------------------------------------- frame

\* Between two states of a registry only the record of the event's id may
\* differ (or be new, as the last one); an event without id changes nothing.
OnlyRecordOf(old, new, event) ==
    IF ~HasKey(event.data, "id") THEN new = old
    ELSE /\ Len(new) \in {Len(old), Len(old) + 1}
         /\ \A i \in DOMAIN old : old[i].id # event.data.id => new[i] = old[i]
         /\ Len(new) = Len(old) + 1 => new[Len(new)].id = event.data.id

\* A tool record without its confirmations.
ButConfirmations(call) == [k \in DOMAIN call \ {"confirmations"} |-> call[k]]

\* Between two states of the tool registry only the confirmations of the record
\* the confirmation event names may differ.
OnlyConfirmationsOf(old, new, event) ==
    /\ Len(new) = Len(old)
    /\ \A i \in DOMAIN old :
          /\ ButConfirmations(new[i]) = ButConfirmations(old[i])
          /\ (HasKey(event.data, "toolCallId") /\ old[i].id = event.data.toolCallId)
             \/ new[i] = old[i]

\* What the step that consumes a line of the file may change.
FrameOfLine ==
    line_num' = line_num + 1 =>
        LET line == trace[line_num + 1] IN
        IF ~Decodes(line) THEN UNCHANGED <<events, llm_calls, tool_calls,
                                           embedding_calls, user_confirmations>>
        ELSE LET event == line.obj IN
             /\ events' = Append(events, event)
             /\ CASE event.type = "llm_call" ->
                      /\ OnlyRecordOf(llm_calls, llm_calls', event)
                      /\ UNCHANGED <<tool_calls, embedding_calls, user_confirmations>>
                  [] event.type = "tool_call" ->
                      /\ OnlyRecordOf(tool_calls, tool_calls', event)
                      /\ UNCHANGED <<llm_calls, embedding_calls, user_confirmations>>
                  [] event.type = "embedding_call" ->
                      /\ OnlyRecordOf(embedding_calls, embedding_calls', event)
                      /\ UNCHANGED <<llm_calls, tool_calls, user_confirmations>>
                  [] event.type = "user_confirmation" ->
                      /\ OnlyRecordOf(user_confirmations, user_confirmations', event)
                      /\ OnlyConfirmationsOf(tool_calls, tool_calls', event)
                      /\ UNCHANGED <<llm_calls, embedding_calls>>
                  [] OTHER ->
                      UNCHANGED <<llm_calls, tool_calls, embedding_calls,
                                  user_confirmations>>

\* C25: ingesting a call event changes only the record of its id in the
\* registry of its category, and the list of all events; every other record of
\* that registry, the other two registries and the confirmation store stay as
\* they are.  Ingesting a confirmation event changes only its entry of the
\* confirmation store and the confirmations of the tool record it names.
C25_IngestionFrame == [][FrameOfLine]_vars

\* Two tool records and a held confirmation behind a confirmation event, the
\* last line consumed: one of the two records is not the one it names.
C25_Witness ==
    /\ Len(tool_calls) = 2
    /\ Len(events) = 3
    /\ events[3].type = "user_confirmation"
    /\ \E i \in DOMAIN tool_calls : tool_calls[i].id # events[3].data.toolCallId
    /\ \E i \in DOMAIN tool_calls : tool_calls[i].confirmations # <<>>

\* ------------------------------------------------ events that fail to ingest

\* C26: a line whose event ends the load with an exception leaves every record
\* that existed before it as it was: trail, status and all other fields.
C26_FailedEventLeavesRecords ==
    [][(pc = "load" /\ pc' = "exit1" /\ line_num' = line_num + 1) =>
          /\ \A i \in DOMAIN llm_calls : llm_calls'[i] = llm_calls[i]
          /\ \A i \in DOMAIN tool_calls : tool_calls'[i] = tool_calls[i]
          /\ \A i \in DOMAIN embedding_calls : embedding_calls'[i] = embedding_calls[i]]_vars

\* ------------------------------------------- terminal events without an end

\* C27: a record whose last merged terminal event carries no endTime has both
\* instants set to that event's startTime and, once the chart is built, a
\* segment of length zero at that instant; when that event carries no duration
\* the stored duration is 0.
C27_MissingEndYieldsZeroLengthSegment ==
    \A type \in SegmentTypes : \A i \in DOMAIN RegistryOf(type) :
        LET call == RegistryOf(type)[i]
            m == MergedEvents(call.events, ClosingPhases(type))
        IN m # <<>> =>
           LET d == m[Len(m)].data IN
           /\ ~HasKey(d, "duration") => call.duration = Some(0)
           /\ ~HasKey(d, "endTime") =>
                 /\ call.start_time = Some(d.startTime)
                 /\ call.end_time = Some(d.startTime)
                 /\ pc = "done" =>
                       \E k \in DOMAIN gantt_data :
                           /\ gantt_data[k].Type = type
                           /\ gantt_data[k].Start = TimestampToDatetime(d.startTime)
                           /\ gantt_data[k].Finish = gantt_data[k].Start

\* -------------------------------------- confirmation events in the analyzer

\* The user_confirmation events of the file that request an approval.
ApprovalRequestsOf(lines) ==
    SelectSeq(lines, LAMBDA line : /\ Decodes(line)
                                   /\ Get(line.obj, "type", "") = "user_confirmation"
                                   /\ Get(line.obj, "event", "") = "approval_requested")

\* C28: when the log holds a user_confirmation event that requests an
\* approval, the monitoring analyzer produces its confirmation section, also
\* when no tool end event carries a positive wait.
C28_ConfirmationEventsCounted ==
    (ConfirmationStatsDone /\ ApprovalRequestsOf(trace) # <<>>) => mon_approval # None

\* --------------------------------------------------- fusion-mode simulation

\* C29: the simulation keeps the events apart from the 'start' ones: its total
\* and events_saved add up to total_events, events_saved is the number of
\* events of phase 'start' and lies in 0..total_events, and each fused
\* 'completed' count is the 'end' and 'completed' counts of its type together;
\* for a log without events the simulation returns a result as well.
C29_SimulationKeepsEventCount ==
    fus_pc \in {"simulated", "sim_crash"} =>
        /\ fus_fusion # None
        /\ LET a == fus_analysis[1]
               f == fus_fusion[1]
               count(key) == IF key \in DOMAIN a.event_types THEN a.event_types[key] ELSE 0
           IN /\ f.fusion_events + f.events_saved = a.total_events
              /\ f.events_saved = Len(OfPhase(fus_events, "start"))
              /\ 0 <= f.events_saved /\ f.events_saved <= a.total_events
              /\ \A key \in DOMAIN a.event_types :
                    key[2] = "end" =>
                        /\ <<key[1], "completed">> \in DOMAIN f.fusion_event_types
                        /\ f.fusion_event_types[<<key[1], "completed">>]
                             = count(key) + count(<<key[1], "completed">>)

====
